---- MODULE Spec2Model ----
(***************************************************************************)
(* Model of the invokej command-line dispatcher (cli.js): loading of the   *)
(* task file, reserved-flag handling, command parsing, the private and     *)
(* constructor checks, method resolution, task discovery and invocation.   *)
(*                                                                         *)
(* Strings are sequences of one-character strings, so that startsWith,     *)
(* includes, split and template concatenation are computed, not assumed.   *)
(* A JavaScript object is modelled by its own properties and its prototype *)
(* chain; a prototype is the ordered list of its own property names (every *)
(* class prototype owns "constructor").                                    *)
(***************************************************************************)
EXTENDS Integers, Sequences, FiniteSets, TLC

(***************************************************************************)
(* Bounds of the explored inputs.                                          *)
(***************************************************************************)
MaxMethods == 2
MaxArgs == 2
MaxParams == 3
MaxDocLines == 3
MaxExitCode == 2
MaxChunks == 1
MaxTodos == 3
MaxPreamble == 2
MaxMembers == 2

(***************************************************************************)
(* String literals of the source, as character sequences.                  *)
(***************************************************************************)
Underscore == "_"
Colon == ":"
Dot == "."
constructor == <<"c", "o", "n", "s", "t", "r", "u", "c", "t", "o", "r">>
toString == <<"t", "o", "S", "t", "r", "i", "n", "g">>
push == <<"p", "u", "s", "h">>
FlagH == <<"-", "h">>
FlagHelp == <<"-", "-", "h", "e", "l", "p">>
FlagL == <<"-", "l">>
FlagList == <<"-", "-", "l", "i", "s", "t">>
FlagVersion == <<"-", "-", "v", "e", "r", "s", "i", "o", "n">>

(***************************************************************************)
(* String primitives.                                                      *)
(***************************************************************************)
startsWith(s, ch) == Len(s) > 0 /\ s[1] = ch

includes(s, ch) == \E i \in 1..Len(s) : s[i] = ch

\* Array.prototype.includes on argv
argvIncludes(a, tok) == \E i \in 1..Len(a) : a[i] = tok

\* index of the first occurrence of ch in s, 0 when absent
IndexOf(s, ch) ==
  IF includes(s, ch) THEN CHOOSE i \in 1..Len(s) : s[i] = ch /\ \A j \in 1..(i - 1) : s[j] # ch
  ELSE 0

RECURSIVE split(_, _)
\* String.prototype.split(sep): every segment between separators
split(s, sep) ==
  IF ~includes(s, sep) THEN <<s>>
  ELSE LET i == IndexOf(s, sep)
       IN <<SubSeq(s, 1, i - 1)>> \o split(SubSeq(s, i + 1, Len(s)), sep)

\* `${namespace}_${method}`
underscoreMethod(namespace, method) == namespace \o <<Underscore>> \o method

\* order-preserving sub-lists of a list, of at most n elements
SubLists(pool, n) ==
  { SelectSeq(pool, LAMBDA x : x \in S) :
      S \in { T \in SUBSET { pool[i] : i \in 1..Len(pool) } : Cardinality(T) <= n } }

(***************************************************************************)
(* The object model.                                                       *)
(***************************************************************************)
\* own property names of Object.prototype and Array.prototype (a sample)
ObjectPrototype == <<constructor, toString>>
ArrayPrototype == <<constructor, push>>

\* a plain object created by `new SomeNamespace()`; proto lists the own
\* property names of SomeNamespace.prototype
NamespaceObject(methods) ==
  [isNull |-> FALSE, isArray |-> FALSE, proto |-> <<constructor>> \o methods]
ArrayValue == [isNull |-> FALSE, isArray |-> TRUE, proto |-> ArrayPrototype]
\* `this.a = null`
NullValue == [isNull |-> TRUE, isArray |-> FALSE, proto |-> <<>>]

\* the prototype of a class whose body declares the given methods
ClassPrototype(methods) == <<constructor>> \o methods

HasOwn(proto, name) == \E i \in 1..Len(proto) : proto[i] = name

\* position in the prototype chain of the first prototype owning name, 0 if none
Definer(chain, name) ==
  IF \E k \in 1..Len(chain) : HasOwn(chain[k], name)
  THEN CHOOSE k \in 1..Len(chain) :
         HasOwn(chain[k], name) /\ \A j \in 1..(k - 1) : ~HasOwn(chain[j], name)
  ELSE 0

\* prototype chain of a property value
ValueChain(value) == <<value.proto, ObjectPrototype>>

\* typeof instance[name]
typeofInstance(inst, name) ==
  IF name \in DOMAIN inst.own THEN "object"
  ELSE IF Definer(inst.chain, name) > 0 THEN "function"
  ELSE "undefined"

\* typeof value[name] for a property value of the instance
typeofMember(value, name) ==
  IF Definer(ValueChain(value), name) > 0 THEN "function" ELSE "undefined"

\* identity of a callable: the object whose chain holds it, the position of
\* the defining prototype in that chain, and the property name
InstanceTarget == [kind |-> "instance", prop |-> <<>>]
NamespaceTarget(prop) == [kind |-> "namespace", prop |-> prop]
NoTarget == [kind |-> "none", prop |-> <<>>]
InstanceFn(inst, name) ==
  [holder |-> InstanceTarget, level |-> Definer(inst.chain, name), name |-> name]
MemberFn(inst, prop, name) ==
  [holder |-> NamespaceTarget(prop),
   level |-> Definer(ValueChain(inst.own[prop]), name), name |-> name]
NoFn == [holder |-> NoTarget, level |-> 0, name |-> <<>>]

(***************************************************************************)
(* parseCommand, resolveMethod, discoverTasks.                             *)
(***************************************************************************)
\* parseCommand trying "." before ":"
parseCommandDotFirst(command) ==
  IF includes(command, Dot)
  THEN [nsNull |-> FALSE, namespace |-> split(command, Dot)[1],
        method |-> split(command, Dot)[2]]
  ELSE IF includes(command, Colon)
  THEN [nsNull |-> FALSE, namespace |-> split(command, Colon)[1],
        method |-> split(command, Colon)[2]]
  ELSE [nsNull |-> TRUE, namespace |-> <<>>, method |-> command]

\* parseCommand(command): the first of ":" and "." that the token contains
\* decides the split; [namespace, method] are the first two segments
parseCommand(command) ==
  IF includes(command, Colon)
  THEN [nsNull |-> FALSE, namespace |-> split(command, Colon)[1],
        method |-> split(command, Colon)[2]]
  ELSE IF includes(command, Dot)
  THEN [nsNull |-> FALSE, namespace |-> split(command, Dot)[1],
        method |-> split(command, Dot)[2]]
  ELSE [nsNull |-> TRUE, namespace |-> <<>>, method |-> command]

\* JavaScript truthiness of the parsed namespace (null and "" are falsy)
Truthy(p) == ~p.nsNull /\ p.namespace # <<>>

NotResolved == [found |-> FALSE, target |-> NoTarget, fn |-> NoFn, warned |-> FALSE]

\* resolveMethod trying the flattened name before the namespace member
resolveMethodLegacyFirst(inst, p) ==
  IF Truthy(p)
  THEN IF typeofInstance(inst, underscoreMethod(p.namespace, p.method)) = "function"
       THEN [found |-> TRUE, target |-> InstanceTarget,
             fn |-> InstanceFn(inst, underscoreMethod(p.namespace, p.method)),
             warned |-> TRUE]
       ELSE IF /\ p.namespace \in DOMAIN inst.own
               /\ ~inst.own[p.namespace].isNull
               /\ typeofMember(inst.own[p.namespace], p.method) = "function"
       THEN [found |-> TRUE, target |-> NamespaceTarget(p.namespace),
             fn |-> MemberFn(inst, p.namespace, p.method), warned |-> FALSE]
       ELSE NotResolved
  ELSE IF typeofInstance(inst, p.method) = "function"
       THEN [found |-> TRUE, target |-> InstanceTarget,
             fn |-> InstanceFn(inst, p.method), warned |-> FALSE]
       ELSE NotResolved

\* resolveMethod without the backward-compatibility fallback
resolveMethodNoFallback(inst, p) ==
  IF Truthy(p)
  THEN IF /\ p.namespace \in DOMAIN inst.own
          /\ ~inst.own[p.namespace].isNull
          /\ typeofMember(inst.own[p.namespace], p.method) = "function"
       THEN [found |-> TRUE, target |-> NamespaceTarget(p.namespace),
             fn |-> MemberFn(inst, p.namespace, p.method), warned |-> FALSE]
       ELSE NotResolved
  ELSE IF typeofInstance(inst, p.method) = "function"
       THEN [found |-> TRUE, target |-> InstanceTarget,
             fn |-> InstanceFn(inst, p.method), warned |-> FALSE]
       ELSE NotResolved

\* resolveMethod whose root branch omits the typeof check
resolveMethodRootUnchecked(inst, p) ==
  IF Truthy(p)
  THEN IF /\ p.namespace \in DOMAIN inst.own
          /\ ~inst.own[p.namespace].isNull
          /\ typeofMember(inst.own[p.namespace], p.method) = "function"
       THEN [found |-> TRUE, target |-> NamespaceTarget(p.namespace),
             fn |-> MemberFn(inst, p.namespace, p.method), warned |-> FALSE]
       ELSE IF typeofInstance(inst, underscoreMethod(p.namespace, p.method)) = "function"
       THEN [found |-> TRUE, target |-> InstanceTarget,
             fn |-> InstanceFn(inst, underscoreMethod(p.namespace, p.method)),
             warned |-> TRUE]
       ELSE NotResolved
  ELSE [found |-> TRUE, target |-> InstanceTarget,
        fn |-> InstanceFn(inst, p.method), warned |-> FALSE]

\* resolveMethod(instance, namespace, method); warned records console.warn
resolveMethod(inst, p) ==
  IF Truthy(p)
  THEN IF /\ p.namespace \in DOMAIN inst.own
          /\ ~inst.own[p.namespace].isNull
          /\ typeofMember(inst.own[p.namespace], p.method) = "function"
       THEN [found |-> TRUE, target |-> NamespaceTarget(p.namespace),
             fn |-> MemberFn(inst, p.namespace, p.method), warned |-> FALSE]
       ELSE IF typeofInstance(inst, underscoreMethod(p.namespace, p.method)) = "function"
       THEN [found |-> TRUE, target |-> InstanceTarget,
             fn |-> InstanceFn(inst, underscoreMethod(p.namespace, p.method)),
             warned |-> TRUE]
       ELSE NotResolved
  ELSE IF typeofInstance(inst, p.method) = "function"
       THEN [found |-> TRUE, target |-> InstanceTarget,
             fn |-> InstanceFn(inst, p.method), warned |-> FALSE]
       ELSE NotResolved

\* the filter without the underscore test
PublicNameNoUnderscoreTest(m) == m # constructor

\* the filter applied to root and namespace method names
PublicName(m) == m # constructor /\ ~startsWith(m, Underscore)

\* root methods: own property names of the instance's immediate prototype
rootMethods(inst) ==
  SelectSeq(inst.chain[1],
            LAMBDA m : PublicName(m) /\ typeofInstance(inst, m) = "function")

\* namespace methods of one property value
nsMethods(value) ==
  SelectSeq(value.proto,
            LAMBDA m : PublicName(m) /\ typeofMember(value, m) = "function")

\* the namespace test without the length check
IsNamespaceAllowsEmpty(inst, prop) ==
  /\ prop \in DOMAIN inst.own
  /\ ~inst.own[prop].isNull
  /\ ~inst.own[prop].isArray

\* the properties that discovery registers as namespaces
IsNamespace(inst, prop) ==
  /\ prop \in DOMAIN inst.own
  /\ ~inst.own[prop].isNull
  /\ ~inst.own[prop].isArray
  /\ Len(nsMethods(inst.own[prop])) > 0

discoverTasks(inst) ==
  [root |-> rootMethods(inst),
   namespaced |-> [prop \in { q \in DOMAIN inst.own : IsNamespace(inst, q) } |->
                     nsMethods(inst.own[prop])]]

(***************************************************************************)
(* Console output.  One event per message; a listing event carries the     *)
(* discovery result that printTaskList / printHelp render.                 *)
(***************************************************************************)
NoListing == [root |-> <<>>, namespaced |-> [prop \in {} |-> <<>>]]
Event(stream, kind, token, listing) ==
  [stream |-> stream, kind |-> kind, token |-> token, listing |-> listing]

printTaskList(inst) == <<Event("stdout", "list", <<>>, discoverTasks(inst))>>
printHelp(inst) == <<Event("stdout", "help", <<>>, discoverTasks(inst))>>

(***************************************************************************)
(* Inputs: the task file in the working directory and the command line.    *)
(***************************************************************************)
nameA == <<"a">>
nameB == <<"b">>
\* method names a Tasks class body may declare: a public task and the legacy
\* flattened forms of the tokens a:b, _a:b, a:_b and :b
RootPool ==
  <<nameA, <<"a", "_", "b">>, <<"_", "a", "_", "b">>, <<"a", "_", "_", "b">>, <<"_", "b">>>>
\* method names the parent class of Tasks may declare
BasePool == <<nameA>>
\* method names a namespace class may declare
NsPool == <<nameB, <<"_", "b">>>>
PrivateProp == <<"_", "a">>

\* values `this.a = ...` may be given in the Tasks constructor
NamespaceValues ==
  { NamespaceObject(ms) : ms \in SubLists(NsPool, MaxMethods) } \cup {ArrayValue, NullValue}
\* `this._a = new PrivateNamespace()` of the private-namespace test
PrivateNamespaceValues == { NamespaceObject(<<nameB>>) }

OwnProperties ==
  { f \in UNION { [D -> NamespaceValues \cup PrivateNamespaceValues] : D \in SUBSET {nameA, PrivateProp} } :
      PrivateProp \in DOMAIN f => f[PrivateProp] \in PrivateNamespaceValues }

\* the classes a loadable tasks.js may export: Tasks (optionally extending a
\* base class) and the properties its constructor assigns
TaskClasses ==
  { [chain |-> <<ClassPrototype(t), ClassPrototype(base), ObjectPrototype>>, own |-> o] :
      t \in SubLists(RootPool, MaxMethods), base \in SubLists(BasePool, MaxMethods),
      o \in OwnProperties }
EmptyClass == [chain |-> <<ClassPrototype(<<>>), ObjectPrototype>>, own |-> [prop \in {} |-> ArrayValue]]

Flags == {FlagH, FlagHelp, FlagL, FlagList, FlagVersion}
Commands ==
  { nameA, <<"z">>, <<"_", "a", "_", "b">>, constructor, toString,
    <<"a", ":", "b">>, <<"a", ".", "b">>, <<"_", "a", ":", "b">>, <<":", "b">>,
    <<"a", ":", "_", "b">>, <<"a", ":", "b", ":", "b">>, <<"a", ".", "b", ":", "b">>, nameA \o <<Colon>> \o constructor,
    nameA \o <<Colon>> \o push }
\* task arguments: a word, a numeral, and a reserved flag in a later position
ArgTokens == { <<"x">>, <<"7">>, FlagHelp }
ArgLists == UNION { [1..n -> ArgTokens] : n \in 0..MaxArgs }
CommandLines == {<<>>} \cup { <<first>> \o rest : first \in Flags \cup Commands, rest \in ArgLists }

(***************************************************************************)
(* State of one CLI process.                                               *)
(***************************************************************************)
VARIABLES
  taskFile,     \* what import(tasksPath) finds: "ok", "missing", "importError", "noExport"
  Tasks,        \* the exported class
  argv,         \* process.argv.slice(2)
  pc,           \* position in the top-level script
  instance,     \* new Tasks()
  instances,    \* number of times the class was instantiated
  parsed,       \* { namespace, method } of the subcommand
  resolved,     \* result of resolveMethod
  executed,     \* calls the dispatcher made: target, callable, arguments
  taskResult,   \* how the invoked task ends
  out,          \* console output, in order
  exitCode      \* process exit code, -1 while running

cliVars == <<taskFile, Tasks, argv, pc, instance, instances, parsed, resolved,
             executed, taskResult, out, exitCode>>

\* state of the components checked on their own, idle while the CLI runs
VARIABLES
  sigFn,        \* the method handed to getMethodSignature
  signature,    \* the string getMethodSignature returned
  sigPc         \* "idle", "start" or "done"

sigVars == <<sigFn, signature, sigPc>>
NoMethod == [async |-> FALSE, params |-> <<>>]
SigIdle == sigFn = NoMethod /\ signature = <<>> /\ sigPc = "idle"

VARIABLES
  docComment,   \* group 1 of a methodRegex match: the text between /** and */
  docMethod,    \* group 2 of the match: the method name
  taskDocs,     \* the docs object of loadTaskDocs, method name -> text
  docPc         \* "idle", "start" or "done"

docVars == <<docComment, docMethod, taskDocs, docPc>>
DocIdle == docComment = <<>> /\ docMethod = <<>> /\ taskDocs = <<>> /\ docPc = "idle"

VARIABLES
  config,       \* this.config of the Context
  options,      \* the options argument of run
  opts,         \* the merged options of the call
  child,        \* the events the spawned child has emitted
  stdout,       \* the captured standard output
  promise,      \* the promise run returned
  ctxPc         \* "idle", "start", "spawned", "errored" or "closed"

ctxVars == <<config, options, opts, child, stdout, promise, ctxPc>>
NoResult == [present |-> FALSE, stdout |-> <<>>, code |-> 0, ok |-> FALSE, failed |-> FALSE]
Pending == [state |-> "pending", result |-> NoResult]
NoOptions == [warn |-> "undefined", hide |-> "undefined"]
Num(n) == [isNull |-> FALSE, n |-> n]
Null == [isNull |-> TRUE, n |-> 0]
NoChild == [errored |-> FALSE, closed |-> FALSE, code |-> Null]
CtxIdle ==
  /\ config = NoOptions
  /\ options = [hasWarn |-> FALSE, warn |-> "undefined"]
  /\ opts = NoOptions
  /\ child = NoChild
  /\ stdout = <<>>
  /\ promise = Pending
  /\ ctxPc = "idle"

VARIABLES
  todos,        \* the rows of the todos table
  nextId,       \* the next AUTOINCREMENT id
  todoReturn,   \* the value the last ToDoManager call returned
  lastClear     \* the table before the last clearCompleted call

todoVars == <<todos, nextId, todoReturn, lastClear>>
NoReturn == [op |-> "none", count |-> 0, changed |-> FALSE]
NoClear == [called |-> FALSE, before |-> {}]
TodoIdle == todos = {} /\ nextId = 1 /\ todoReturn = NoReturn /\ lastClear = NoClear

VARIABLES
  edge,         \* the rows of the edge table
  edgeCall,     \* the last call made on the edge: its name, arguments, outcome
  edgeGiven,    \* the component of the last setEdge call since the last clear_edge
  edgeSet,      \* the component of the last setEdge call that returned
  edgeResult    \* what the last getEdge call returned

wallVars == <<edge, edgeCall, edgeGiven, edgeSet, edgeResult>>
NoCall ==
  [op |-> "none", component |-> "null", status |-> "null", approach |-> "null",
   threw |-> FALSE]
WallIdle ==
  /\ edge = {}
  /\ edgeCall = NoCall
  /\ edgeGiven = "undefined"
  /\ edgeSet = "undefined"
  /\ edgeResult = "undefined"

VARIABLES
  source,       \* the text of the tasks file
  parentSource, \* the text of the module the tasks file imports its base class from
  loaded,       \* what loadTaskDocs returned: taskDocs and classDoc
  loadPc        \* "idle", "start" or "done"

srcVars == <<source, parentSource, loaded, loadPc>>
NoDocs == [taskDocs |-> {}, classNull |-> TRUE, classDoc |-> <<>>]
SrcIdle == source = <<>> /\ parentSource = <<>> /\ loaded = NoDocs /\ loadPc = "idle"

auxVars == <<sigVars, docVars, ctxVars, todoVars, wallVars, srcVars>>
AuxInit == SigIdle /\ DocIdle /\ CtxIdle /\ TodoIdle /\ WallIdle /\ SrcIdle

vars == <<cliVars, auxVars>>

NoParse == [nsNull |-> TRUE, namespace |-> <<>>, method |-> <<>>]

Init ==
  /\ taskFile \in {"ok", "missing", "importError", "noExport"}
  /\ Tasks \in (IF taskFile = "ok" THEN TaskClasses ELSE {EmptyClass})
  /\ argv \in CommandLines
  /\ pc = "load"
  /\ instance = EmptyClass
  /\ instances = 0
  /\ parsed = NoParse
  /\ resolved = NotResolved
  /\ executed = <<>>
  /\ taskResult = "none"
  /\ out = <<>>
  /\ exitCode = -1
  /\ AuxInit

\* the CLI process is not part of the run
CliIdle ==
  /\ taskFile = "missing"
  /\ Tasks = EmptyClass
  /\ argv = <<>>
  /\ pc = "idle"
  /\ instance = EmptyClass
  /\ instances = 0
  /\ parsed = NoParse
  /\ resolved = NotResolved
  /\ executed = <<>>
  /\ taskResult = "none"
  /\ out = <<>>
  /\ exitCode = -1

Exit(code) == pc' = "exited" /\ exitCode' = code

\* the loading without the test of the exported class
LoadSkipsExportCheck ==
  /\ pc = "load"
  /\ IF taskFile = "missing"
     THEN /\ out' = out \o <<Event("stderr", "noTasksFile", <<>>, NoListing),
                             Event("stderr", "example", <<>>, NoListing)>>
          /\ Exit(1)
          /\ UNCHANGED <<instance, instances>>
     ELSE IF taskFile = "importError"
     THEN /\ out' = out \o <<Event("stderr", "uncaught", <<>>, NoListing)>>
          /\ Exit(1)
          /\ UNCHANGED <<instance, instances>>
     ELSE /\ instance' = Tasks
          /\ instances' = instances + 1
          /\ pc' = "flags"
          /\ UNCHANGED <<out, exitCode>>
  /\ UNCHANGED <<taskFile, Tasks, argv, parsed, resolved, executed, taskResult>>
  /\ UNCHANGED auxVars

\* cli.js 10-40: import tasks.js, check the export, instantiate
Load ==
  /\ pc = "load"
  /\ IF taskFile = "missing"
     THEN /\ out' = out \o <<Event("stderr", "noTasksFile", <<>>, NoListing),
                             Event("stderr", "example", <<>>, NoListing)>>
          /\ Exit(1)
          /\ UNCHANGED <<instance, instances>>
     ELSE IF taskFile = "importError"
     THEN /\ out' = out \o <<Event("stderr", "uncaught", <<>>, NoListing)>>
          /\ Exit(1)
          /\ UNCHANGED <<instance, instances>>
     ELSE IF taskFile = "noExport"
     THEN /\ out' = out \o <<Event("stderr", "noTasksClass", <<>>, NoListing)>>
          /\ Exit(1)
          /\ UNCHANGED <<instance, instances>>
     ELSE /\ instance' = Tasks
          /\ instances' = instances + 1
          /\ pc' = "flags"
          /\ UNCHANGED <<out, exitCode>>
  /\ UNCHANGED <<taskFile, Tasks, argv, parsed, resolved, executed, taskResult>>
  /\ UNCHANGED auxVars

\* the flag handling without the short form -l
HandleFlagsNoShortList ==
  /\ pc = "flags"
  /\ IF argvIncludes(argv, FlagH) \/ argvIncludes(argv, FlagHelp) \/ Len(argv) = 0
     THEN out' = out \o printHelp(instance) /\ Exit(0)
     ELSE IF argvIncludes(argv, FlagList)
     THEN out' = out \o printTaskList(instance) /\ Exit(0)
     ELSE IF argvIncludes(argv, FlagVersion)
     THEN out' = out \o <<Event("stdout", "version", <<>>, NoListing)>> /\ Exit(0)
     ELSE pc' = "check" /\ UNCHANGED <<out, exitCode>>
  /\ UNCHANGED <<taskFile, Tasks, argv, instance, instances, parsed, resolved,
                 executed, taskResult>>
  /\ UNCHANGED auxVars

\* cli.js 124-137: reserved flags anywhere in argv, or no arguments
HandleFlags ==
  /\ pc = "flags"
  /\ IF argvIncludes(argv, FlagH) \/ argvIncludes(argv, FlagHelp) \/ Len(argv) = 0
     THEN out' = out \o printHelp(instance) /\ Exit(0)
     ELSE IF argvIncludes(argv, FlagL) \/ argvIncludes(argv, FlagList)
     THEN out' = out \o printTaskList(instance) /\ Exit(0)
     ELSE IF argvIncludes(argv, FlagVersion)
     THEN out' = out \o <<Event("stdout", "version", <<>>, NoListing)>> /\ Exit(0)
     ELSE pc' = "check" /\ UNCHANGED <<out, exitCode>>
  /\ UNCHANGED <<taskFile, Tasks, argv, instance, instances, parsed, resolved,
                 executed, taskResult>>
  /\ UNCHANGED auxVars

\* the checks with the constructor branch exiting with code 0
CheckPrivateConstructorExitsZero ==
  /\ pc = "check"
  /\ parsed' = parseCommand(argv[1])
  /\ IF startsWith(parsed'.method, Underscore)
     THEN /\ out' = out \o <<Event("stderr", "private", parsed'.method, NoListing)>>
                        \o printTaskList(instance)
          /\ Exit(1)
     ELSE IF parsed'.method = constructor
     THEN /\ out' = out \o <<Event("stderr", "constructor", parsed'.method, NoListing)>>
                        \o printTaskList(instance)
          /\ Exit(0)
     ELSE pc' = "resolve" /\ UNCHANGED <<out, exitCode>>
  /\ UNCHANGED <<taskFile, Tasks, argv, instance, instances, resolved, executed, taskResult>>
  /\ UNCHANGED auxVars

\* the checks made only after a lookup that found the member
CheckPrivateLookupFirst ==
  /\ pc = "check"
  /\ parsed' = parseCommand(argv[1])
  /\ IF ~resolveMethod(instance, parsed').found
     THEN /\ out' = out \o <<Event("stderr", "Unknown", argv[1], NoListing)>>
                        \o printTaskList(instance)
          /\ Exit(1)
     ELSE IF startsWith(parsed'.method, Underscore)
     THEN /\ out' = out \o <<Event("stderr", "private", parsed'.method, NoListing)>>
                        \o printTaskList(instance)
          /\ Exit(1)
     ELSE IF parsed'.method = constructor
     THEN /\ out' = out \o <<Event("stderr", "constructor", parsed'.method, NoListing)>>
                        \o printTaskList(instance)
          /\ Exit(1)
     ELSE pc' = "resolve" /\ UNCHANGED <<out, exitCode>>
  /\ UNCHANGED <<taskFile, Tasks, argv, instance, instances, resolved, executed, taskResult>>
  /\ UNCHANGED auxVars

\* cli.js 139-153: split argv, parse the subcommand, private and constructor checks
CheckPrivate ==
  /\ pc = "check"
  /\ parsed' = parseCommand(argv[1])
  /\ IF startsWith(parsed'.method, Underscore)
     THEN /\ out' = out \o <<Event("stderr", "private", parsed'.method, NoListing)>>
                        \o printTaskList(instance)
          /\ Exit(1)
     ELSE IF parsed'.method = constructor
     THEN /\ out' = out \o <<Event("stderr", "constructor", parsed'.method, NoListing)>>
                        \o printTaskList(instance)
          /\ Exit(1)
     ELSE pc' = "resolve" /\ UNCHANGED <<out, exitCode>>
  /\ UNCHANGED <<taskFile, Tasks, argv, instance, instances, resolved, executed, taskResult>>
  /\ UNCHANGED auxVars

\* the unknown-task branch without process.exit: the script goes on to the call
ResolveNoExit ==
  /\ pc = "resolve"
  /\ resolved' = resolveMethod(instance, parsed)
  /\ IF ~resolved'.found
     THEN /\ out' = out \o <<Event("stderr", "Unknown", argv[1], NoListing)>>
                        \o printTaskList(instance)
          /\ pc' = "invoke"
          /\ UNCHANGED exitCode
     ELSE /\ out' = out \o (IF resolved'.warned
                            THEN <<Event("stderr", "warn",
                                         underscoreMethod(parsed.namespace, parsed.method),
                                         NoListing)>>
                            ELSE <<>>)
          /\ pc' = "invoke"
          /\ UNCHANGED exitCode
  /\ UNCHANGED <<taskFile, Tasks, argv, instance, instances, parsed, executed, taskResult>>
  /\ UNCHANGED auxVars

\* cli.js 155-163: resolveMethod and the unknown-task branch
Resolve ==
  /\ pc = "resolve"
  /\ resolved' = resolveMethod(instance, parsed)
  /\ IF ~resolved'.found
     THEN /\ out' = out \o <<Event("stderr", "Unknown", argv[1], NoListing)>>
                        \o printTaskList(instance)
          /\ Exit(1)
     ELSE /\ out' = out \o (IF resolved'.warned
                            THEN <<Event("stderr", "warn",
                                         underscoreMethod(parsed.namespace, parsed.method),
                                         NoListing)>>
                            ELSE <<>>)
          /\ pc' = "invoke"
          /\ UNCHANGED exitCode
  /\ UNCHANGED <<taskFile, Tasks, argv, instance, instances, parsed, executed, taskResult>>
  /\ UNCHANGED auxVars

\* the call passing argv whole, the command token included
InvokeWithWholeArgv ==
  /\ pc = "invoke"
  /\ executed' = Append(executed, [target |-> resolved.target, fn |-> resolved.fn,
                                   args |-> <<<<"context">>>> \o argv])
  /\ \E r \in {"returns", "throws", "rejects"} : taskResult' = r
  /\ pc' = "await"
  /\ UNCHANGED <<taskFile, Tasks, argv, instance, instances, parsed, resolved, out, exitCode>>
  /\ UNCHANGED auxVars

\* cli.js 166: resolved.fn.apply(resolved.target, [context, ...args])
Invoke ==
  /\ pc = "invoke"
  /\ executed' = Append(executed, [target |-> resolved.target, fn |-> resolved.fn,
                                   args |-> <<<<"context">>>> \o Tail(argv)])
  /\ \E r \in {"returns", "throws", "rejects"} : taskResult' = r
  /\ pc' = "await"
  /\ UNCHANGED <<taskFile, Tasks, argv, instance, instances, parsed, resolved, out, exitCode>>
  /\ UNCHANGED auxVars

\* the catch block without process.exit(1)
SettleWithoutExitOne ==
  /\ pc = "await"
  /\ IF taskResult = "returns"
     THEN out' = out /\ Exit(0)
     ELSE out' = Append(out, Event("stderr", "taskError", argv[1], NoListing)) /\ Exit(0)
  /\ UNCHANGED <<taskFile, Tasks, argv, instance, instances, parsed, resolved,
                 executed, taskResult>>
  /\ UNCHANGED auxVars

\* cli.js 166-171: the awaited task settles; the script ends or the catch exits 1
Settle ==
  /\ pc = "await"
  /\ IF taskResult = "returns"
     THEN out' = out /\ Exit(0)
     ELSE out' = Append(out, Event("stderr", "taskError", argv[1], NoListing)) /\ Exit(1)
  /\ UNCHANGED <<taskFile, Tasks, argv, instance, instances, parsed, resolved,
                 executed, taskResult>>
  /\ UNCHANGED auxVars

Next == Load \/ HandleFlags \/ CheckPrivate \/ Resolve \/ Invoke \/ Settle

Spec == Init /\ [][Next]_vars

TypeOK ==
  /\ pc \in {"load", "flags", "check", "resolve", "invoke", "await", "exited"}
  /\ exitCode \in {-1, 0, 1}
  /\ instances \in 0..1
  /\ Len(executed) <= 1

(***************************************************************************)
(* Properties of the dispatcher.                                           *)
(***************************************************************************)
\* the subcommand has been parsed (the script passed the flag handling)
Dispatched == parsed # NoParse

HasEvent(kind) == \E i \in 1..Len(out) : out[i].kind = kind

\* number of occurrences of an element in a list
Count(list, x) == Cardinality({ i \in 1..Len(list) : list[i] = x })

\* instance[namespace][method] is callable
MemberCallable(inst, p) ==
  /\ p.namespace \in DOMAIN inst.own
  /\ ~inst.own[p.namespace].isNull
  /\ typeofMember(inst.own[p.namespace], p.method) = "function"

\* instance[`${namespace}_${method}`] is callable
LegacyCallable(inst, p) ==
  typeofInstance(inst, underscoreMethod(p.namespace, p.method)) = "function"

\* the token names no callable: no root method, no namespace member, no
\* legacy flattened method
NoCallable(inst, p) ==
  IF Truthy(p)
  THEN ~MemberCallable(inst, p) /\ ~LegacyCallable(inst, p)
  ELSE typeofInstance(inst, p.method) # "function"

\* C1: no method whose name starts with "_" is ever executed by the
\* dispatcher, whatever the command token is.
C1_NoPrivateMethodExecuted ==
  \A i \in 1..Len(executed) : ~startsWith(executed[i].fn.name, Underscore)

\* C2: a token whose namespace part starts with "_" is rejected with the
\* private-access error and exit code 1, and nothing is executed.
C2_PrivateNamespaceRejected ==
  (Dispatched /\ ~parsed.nsNull /\ startsWith(parsed.namespace, Underscore)) =>
     /\ executed = <<>>
     /\ pc = "exited" => (exitCode = 1 /\ HasEvent("private"))

\* C3: every public method name defined at any level of the ancestor chain
\* below Object.prototype (and callable on the instance) appears exactly once
\* in the root discovery list.
C3_InheritedMethodsListedOnce ==
  instances = 1 =>
    \A k \in 1..(Len(instance.chain) - 1) : \A i \in 1..Len(instance.chain[k]) :
      LET m == instance.chain[k][i]
      IN (PublicName(m) /\ typeofInstance(instance, m) = "function") =>
           Count(discoverTasks(instance).root, m) = 1

\* C4: no listing or help output contains a method name that starts with "_"
\* or equals "constructor", among root tasks or namespace members.
C4_ListingHasNoPrivateNames ==
  \A i \in 1..Len(out) :
    LET l == out[i].listing
    IN /\ \A j \in 1..Len(l.root) :
            l.root[j] # constructor /\ ~startsWith(l.root[j], Underscore)
       /\ \A prop \in DOMAIN l.namespaced : \A j \in 1..Len(l.namespaced[prop]) :
            /\ l.namespaced[prop][j] # constructor
            /\ ~startsWith(l.namespaced[prop][j], Underscore)

\* C4 witness: a listing was printed for a class with a private root method
\* and a namespace with a private member, and the listing is not empty.
C4_Witness ==
  /\ pc = "exited"
  /\ \E i \in 1..Len(out) :
       /\ out[i].kind = "list"
       /\ Len(out[i].listing.root) > 0
       /\ nameA \in DOMAIN out[i].listing.namespaced
  /\ HasOwn(instance.chain[1], <<"_", "b">>)
  /\ nameA \in DOMAIN instance.own /\ HasOwn(instance.own[nameA].proto, <<"_", "b">>)

\* C5: an own instance property whose name starts with "_" is never
\* registered as a namespace by discovery.
C5_PrivatePropertyNotRegistered ==
  instances = 1 =>
    \A prop \in DOMAIN instance.own :
      startsWith(prop, Underscore) => prop \notin DOMAIN discoverTasks(instance).namespaced

\* C6: for every discovered (namespace, method) pair the token
\* namespace:method resolves to instance[namespace][method] with the namespace
\* object as call target, and the dispatcher invokes exactly that member.
C6_DiscoveredPairResolves ==
  instances = 1 =>
    \A prop \in DOMAIN discoverTasks(instance).namespaced :
      \A i \in 1..Len(discoverTasks(instance).namespaced[prop]) :
        LET m == discoverTasks(instance).namespaced[prop][i]
            token == prop \o <<Colon>> \o m
            r == resolveMethod(instance, parseCommand(token))
        IN /\ r.found /\ ~r.warned
           /\ r.target = NamespaceTarget(prop)
           /\ r.fn.holder = NamespaceTarget(prop) /\ r.fn.name = m /\ r.fn.level = 1
           /\ (pc \in {"await", "exited"} /\ Dispatched /\ argv[1] = token) =>
                /\ Len(executed) = 1
                /\ executed[1].target = NamespaceTarget(prop)
                /\ executed[1].fn = [holder |-> NamespaceTarget(prop), level |-> 1, name |-> m]

\* C6 witness: the token a:b of a discovered pair was dispatched and the
\* member b of the namespace a was invoked.
C6_Witness ==
  /\ pc = "exited"
  /\ argv = <<<<"a", ":", "b">>>>
  /\ nameA \in DOMAIN discoverTasks(instance).namespaced
  /\ Len(executed) = 1 /\ executed[1].target = NamespaceTarget(nameA)
  /\ HasOwn(instance.chain[1], <<"a", "_", "b">>)

\* the legacy case: instance[ns] is missing or has no callable m, but
\* instance[ns_m] is callable
LegacyOnly(inst, p) == ~MemberCallable(inst, p) /\ LegacyCallable(inst, p)

\* the legacy fallback was taken: warning printed, flattened method invoked
\* on the instance
LegacyInvoked ==
  /\ HasEvent("warn")
  /\ Len(executed) = 1
  /\ executed[1].target = InstanceTarget
  /\ executed[1].fn.holder = InstanceTarget
  /\ executed[1].fn.name = underscoreMethod(parsed.namespace, parsed.method)

\* C7 as stated: for every namespaced token ns:m in the legacy case the
\* flattened method ns_m is invoked on the instance with a warning.
C7_LegacyFallbackAlways ==
  (pc = "exited" /\ Dispatched /\ ~parsed.nsNull /\ LegacyOnly(instance, parsed)) =>
     LegacyInvoked

\* C7 amended: the same, for tokens whose namespace part is not empty and
\* whose method part neither starts with "_" nor equals "constructor".
C7_LegacyFallback ==
  (/\ pc = "exited" /\ Dispatched /\ ~parsed.nsNull /\ LegacyOnly(instance, parsed)
   /\ parsed.namespace # <<>>
   /\ ~startsWith(parsed.method, Underscore) /\ parsed.method # constructor) =>
     LegacyInvoked

\* C7 witness: a:b was dispatched with no namespace a and a method a_b.
C7_Witness ==
  /\ pc = "exited"
  /\ argv = <<<<"a", ":", "b">>>>
  /\ nameA \notin DOMAIN instance.own
  /\ LegacyInvoked

\* the unknown-task outcome: the error with the token first, then the
\* listing, exit code 1, nothing executed
UnknownReported ==
  /\ Len(out) = 2
  /\ out[1].stream = "stderr" /\ out[1].kind = "Unknown" /\ out[1].token = argv[1]
  /\ out[2].stream = "stdout" /\ out[2].kind = "list"
  /\ exitCode = 1
  /\ executed = <<>>

\* C8 as stated: whenever the token names no callable the CLI reports an
\* unknown task, prints the listing and exits 1 without executing anything.
C8_UnknownAlways ==
  (pc = "exited" /\ Dispatched /\ NoCallable(instance, parsed)) => UnknownReported

\* C8 amended: the same, for tokens whose method part neither starts with
\* "_" nor equals "constructor".
C8_UnknownTask ==
  (/\ pc = "exited" /\ Dispatched /\ NoCallable(instance, parsed)
   /\ ~startsWith(parsed.method, Underscore) /\ parsed.method # constructor) =>
     UnknownReported

\* C8 witness: the absent command z was reported as unknown.
C8_Witness ==
  /\ pc = "exited" /\ argv = <<<<"z">>>> /\ UnknownReported
  /\ Len(out[2].listing.root) > 0

\* C9: with a loadable tasks.js, empty argv or a lone help, list or version
\* flag prints the help, the listing or the version, exits 0 and invokes no
\* task; empty argv behaves as --help.
C9_ReservedFlags ==
  (pc = "exited" /\ taskFile = "ok") =>
     /\ (argv \in {<<>>, <<FlagH>>, <<FlagHelp>>}) =>
          /\ out = <<Event("stdout", "help", <<>>, discoverTasks(instance))>>
          /\ exitCode = 0 /\ executed = <<>>
     /\ (argv \in {<<FlagL>>, <<FlagList>>}) =>
          /\ out = <<Event("stdout", "list", <<>>, discoverTasks(instance))>>
          /\ exitCode = 0 /\ executed = <<>>
     /\ (argv = <<FlagVersion>>) =>
          /\ out = <<Event("stdout", "version", <<>>, NoListing)>>
          /\ exitCode = 0 /\ executed = <<>>

\* C9 witness: the process ended after an empty command line printed the help.
C9_Witness ==
  /\ pc = "exited" /\ argv = <<>> /\ exitCode = 0
  /\ Len(out) = 1 /\ out[1].kind = "help" /\ Len(out[1].listing.root) > 0

\* C10: when the first token is not a reserved flag it is treated as the
\* command name, whatever the later tokens are.
C10_FirstTokenDecides ==
  (pc = "exited" /\ taskFile = "ok" /\ Len(argv) > 0 /\ argv[1] \notin Flags) =>
     /\ parsed = parseCommand(argv[1])
     /\ ~HasEvent("help") /\ ~HasEvent("version")

\* C11: the callable is invoked with the context first, followed by every
\* remaining command-line token in its original order, unmodified.
C11_ArgumentsPassed ==
  \A i \in 1..Len(executed) :
    /\ Len(executed[i].args) = Len(argv)
    /\ executed[i].args[1] = <<"context">>
    /\ \A k \in 2..Len(argv) : executed[i].args[k] = argv[k]

\* C11 witness: a task was invoked with two different arguments, a numeral first.
C11_Witness ==
  /\ Len(executed) = 1 /\ Len(argv) = 3
  /\ argv[2] = <<"7">> /\ argv[3] = <<"x">>
  /\ executed[1].args = <<<<"context">>, <<"7">>, <<"x">>>>

\* number of output events of a kind
EventCount(kind) == Cardinality({ i \in 1..Len(out) : out[i].kind = kind })

\* C12: a task that throws or rejects is caught once: one error message with
\* the command token on the error stream, exit code 1, the task called once.
C12_TaskErrorCaught ==
  (pc = "exited" /\ taskResult \in {"throws", "rejects"}) =>
     /\ exitCode = 1
     /\ Len(executed) = 1
     /\ EventCount("taskError") = 1
     /\ out[Len(out)].kind = "taskError"
     /\ out[Len(out)].stream = "stderr"
     /\ out[Len(out)].token = argv[1]

\* C12 witness: a namespaced task rejected and the process ended.
C12_Witness ==
  /\ pc = "exited" /\ taskResult = "rejects" /\ exitCode = 1
  /\ Len(executed) = 1 /\ executed[1].target = NamespaceTarget(nameA)

\* the process ended in the help, list or version branch
FlagOutcome ==
  /\ Len(out) = 1
  /\ out[1].stream = "stdout"
  /\ out[1].kind \in {"help", "list", "version"}
  /\ executed = <<>>

C14_LoadFailure ==
  pc = "exited" =>
     /\ taskFile = "missing" =>
          /\ exitCode = 1 /\ instances = 0 /\ ~Dispatched /\ executed = <<>>
          /\ Len(out) = 2 /\ out[1].kind = "noTasksFile" /\ out[2].kind = "example"
          /\ out[1].stream = "stderr" /\ out[2].stream = "stderr"
     /\ taskFile = "noExport" =>
          /\ exitCode = 1 /\ instances = 0 /\ ~Dispatched /\ executed = <<>>
          /\ Len(out) = 1 /\ out[1].kind = "noTasksClass" /\ out[1].stream = "stderr"

\* C14 witness: tasks.js exports no Tasks class and the command line asks for
\* help; the process ended with the missing-class message.
C14_Witness ==
  /\ pc = "exited" /\ taskFile = "noExport" /\ argv = <<FlagHelp>>
  /\ exitCode = 1 /\ HasEvent("noTasksClass")

\* C15: the class is instantiated at most once (exactly once when loading
\* succeeds), at most one task method is invoked, only after a successful
\* resolution, and none on the help, list, version and failure paths.
C15_SingleInvocation ==
  /\ instances <= 1
  /\ (taskFile = "ok" /\ pc # "load") => instances = 1
  /\ taskFile # "ok" => instances = 0
  /\ Len(executed) <= 1
  /\ executed # <<>> =>
       /\ resolved.found
       /\ executed[1].fn = resolved.fn /\ executed[1].target = resolved.target
  /\ (pc = "exited" /\ (FlagOutcome \/ taskResult = "none")) => executed = <<>>
  /\ (HasEvent("Unknown") \/ HasEvent("private") \/ HasEvent("constructor")
        \/ HasEvent("help") \/ HasEvent("version")) => executed = <<>>

\* C15 witness: one instance, one invocation, process ended.
C15_Witness ==
  /\ pc = "exited" /\ instances = 1 /\ Len(executed) = 1 /\ resolved.found

(***************************************************************************)
(* getMethodSignature (cli.js 350-404), on the source text of a method.    *)
(***************************************************************************)
IsSpace(ch) == ch \in {" ", "\n"}

RECURSIVE TrimLeft(_)
TrimLeft(s) == IF s = <<>> \/ ~IsSpace(Head(s)) THEN s ELSE TrimLeft(Tail(s))

RECURSIVE TrimRight(_)
TrimRight(s) ==
  IF s = <<>> \/ ~IsSpace(s[Len(s)]) THEN s ELSE TrimRight(SubSeq(s, 1, Len(s) - 1))

\* String.prototype.trim
Trim(s) == TrimRight(TrimLeft(s))

RECURSIVE CollapseSpaces(_)
\* replace(/\s+/g, " ")
CollapseSpaces(s) ==
  IF s = <<>> THEN <<>>
  ELSE IF IsSpace(Head(s)) THEN <<" ">> \o CollapseSpaces(TrimLeft(s))
  ELSE <<Head(s)>> \o CollapseSpaces(Tail(s))

RECURSIVE Join(_, _)
\* Array.prototype.join
Join(list, sep) ==
  IF list = <<>> THEN <<>>
  ELSE IF Len(list) = 1 THEN list[1]
  ELSE list[1] \o sep \o Join(Tail(list), sep)

CommaSpace == <<",", " ">>

\* the last run of non-space characters of s: the (\w+) before the parenthesis
RECURSIVE LastWord(_)
LastWord(s) ==
  IF s = <<>> \/ IsSpace(s[Len(s)]) THEN <<>>
  ELSE LastWord(SubSeq(s, 1, Len(s) - 1)) \o <<s[Len(s)]>>

\* positions of a ")" that is followed by optional whitespace and "{"
CloseCandidates(text, open) ==
  { j \in (open + 1)..Len(text) :
      /\ text[j] = ")"
      /\ startsWith(TrimLeft(SubSeq(text, j + 1, Len(text))), "{") }

\* fnString.match(/(?:async\s+)?(\w+)\s*\(([\s\S]*?)\)\s*{/): the name before
\* the first "(" and the shortest text up to a ")" followed by "{"
MatchHead(text) ==
  LET open == IndexOf(text, "(")
  IN IF open = 0 \/ CloseCandidates(text, open) = {} \/
        LastWord(TrimRight(SubSeq(text, 1, open - 1))) = <<>>
     THEN [matched |-> FALSE, name |-> <<>>, params |-> <<>>]
     ELSE LET close == CHOOSE j \in CloseCandidates(text, open) :
                         \A k \in CloseCandidates(text, open) : j <= k
          IN [matched |-> TRUE,
              name |-> LastWord(TrimRight(SubSeq(text, 1, open - 1))),
              params |-> SubSeq(text, open + 1, close - 1)]

\* the map callback of getMethodSignature, applied to one piece of the split
formatParam(param) ==
  LET trimmed == Trim(param)
  IN IF startsWith(trimmed, "{") /\ includes(trimmed, "}")
     THEN LET inner == SubSeq(trimmed, 2, IndexOf(trimmed, "}") - 1)
              parts == split(inner, ",")
              fields == [i \in 1..Len(parts) |-> Trim(split(Trim(parts[i]), "=")[1])]
          IN <<"{">> \o Join(fields, CommaSpace) \o <<"}">>
               \o (IF includes(trimmed, "=") THEN <<" ", "=", " ", "{", "}">> ELSE <<>>)
     ELSE IF startsWith(trimmed, "[")
     THEN Trim(split(trimmed, "=")[1])
            \o (IF includes(trimmed, "=") THEN <<" ", "=", " ", "[", "]">> ELSE <<>>)
     ELSE trimmed

\* getMethodSignature(fn), given fn.toString() and fn.name
getMethodSignature(fnString, fnName) ==
  LET match == MatchHead(fnString)
  IN IF ~match.matched THEN fnName
     ELSE IF Trim(match.params) = <<>> THEN match.name \o <<"(", ")">>
     ELSE LET cleanParams == Trim(CollapseSpaces(match.params))
              pieces == split(cleanParams, ",")
              formatted == [i \in 1..Len(pieces) |-> formatParam(pieces[i])]
              paramList == Join(Tail(formatted), CommaSpace)
          IN match.name \o <<"(">> \o paramList \o <<")">>

\* the parameter forms a task method may declare, as written in the source
PlainParams == { <<"c">>, <<"x">>, <<"x", " ", "=", " ", "1">> }
ObjectParams == { <<"{", "a", ",", " ", "b", "}">>, <<"{", "a", "}">>,
                  <<"{", "a", ",", " ", "b", "}", " ", "=", " ", "{", "}">> }
ArrayParams == { <<"[", "a", ",", " ", "b", "]">> }
RestParam == <<".", ".", ".", "r">>
ParamForms == PlainParams \cup ObjectParams \cup ArrayParams \cup {RestParam}

\* parameter lists of at most MaxParams parameters; a rest parameter is last
ParamLists ==
  { ps \in UNION { [1..n -> ParamForms] : n \in 0..MaxParams } :
      \A i \in 1..Len(ps) : ps[i] = RestParam => i = Len(ps) }

MethodName == <<"f">>

\* Function.prototype.toString of a class method: its source text
fnToString(method) ==
  (IF method.async THEN <<"a", "s", "y", "n", "c", " ">> ELSE <<>>)
    \o MethodName \o <<"(">> \o Join(method.params, CommaSpace) \o <<")", " ", "{", " ", "}">>

SigInit ==
  /\ sigFn \in { [async |-> as, params |-> ps] : as \in BOOLEAN, ps \in ParamLists }
  /\ signature = <<>>
  /\ sigPc = "start"
  /\ CliIdle /\ DocIdle /\ CtxIdle /\ TodoIdle /\ WallIdle /\ SrcIdle

\* one call of getMethodSignature(fn)
Reconstruct ==
  /\ sigPc = "start"
  /\ signature' = getMethodSignature(fnToString(sigFn), MethodName)
  /\ sigPc' = "done"
  /\ UNCHANGED <<sigFn, cliVars, docVars, ctxVars, todoVars, wallVars, srcVars>>

SigNext == Reconstruct

SpecSignature == SigInit /\ [][SigNext]_vars

\* C16: the signature omits exactly the first declared parameter and lists
\* every other declared parameter once, in declaration order; a destructured
\* parameter counts as one parameter in any position.
C16_SignatureOmitsFirstParameter ==
  sigPc = "done" =>
    signature = MethodName \o <<"(">>
                  \o (IF sigFn.params = <<>> THEN <<>>
                      ELSE Join(Tail(sigFn.params), CommaSpace))
                  \o <<")">>

(***************************************************************************)
(* loadTaskDocs: the documentation recorded for a method of the Tasks      *)
(* class. The inputs are the two groups of one methodRegex match.          *)
(***************************************************************************)
Newline == "\n"
At == "@"
Star == "*"

\* the text of one comment line, without its decoration
DocLineTexts == { <<"H", "i">>, <<"G", "o">>, <<"@", "p">>, <<>> }

\* how the comment ends before its closing delimiter
DocClosings == { <<" ">>, <<Newline, " ">> }

RECURSIVE LaterLines(_)
\* the second and later lines of a block comment, each behind " * "
LaterLines(lines) ==
  IF lines = <<>> THEN <<>>
  ELSE <<Newline, " ", Star, " ">> \o Head(lines) \o LaterLines(Tail(lines))

\* the text between the opening and the closing delimiter of a block comment
CommentBody(lines, closing) ==
  <<" ">> \o Head(lines) \o LaterLines(Tail(lines)) \o closing

DocComments ==
  { CommentBody(ls, cl) :
      ls \in UNION { [1..n -> DocLineTexts] : n \in 1..MaxDocLines },
      cl \in DocClosings }

DocMethods == { <<"f">>, <<Underscore, "f">>, constructor }

DocInit ==
  /\ docComment \in DocComments
  /\ docMethod \in DocMethods
  /\ taskDocs = {}
  /\ docPc = "start"
  /\ CliIdle /\ SigIdle /\ CtxIdle /\ TodoIdle /\ WallIdle /\ SrcIdle

\* the body of the while loop over the methodRegex matches
RecordDoc ==
  /\ docPc = "start"
  /\ taskDocs' =
       IF docMethod # constructor /\ ~startsWith(docMethod, Underscore)
       THEN taskDocs \cup { [name |-> docMethod, doc |-> Trim(docComment)] }
       ELSE taskDocs
  /\ docPc' = "done"
  /\ UNCHANGED <<docComment, docMethod, cliVars, sigVars, ctxVars, todoVars,
                 wallVars, srcVars>>

DocNext == RecordDoc

SpecDocs == DocInit /\ [][DocNext]_vars

\* a comment line without its leading whitespace, star and surrounding blanks
StripStar(line) ==
  LET l == TrimLeft(line)
  IN IF startsWith(l, Star) THEN Trim(Tail(l)) ELSE Trim(line)

\* the stripped lines of a comment that are neither blank nor tags
DescriptionLines(comment) ==
  LET ls == split(comment, Newline)
      stripped == [i \in 1..Len(ls) |-> StripStar(ls[i])]
  IN SelectSeq(stripped, LAMBDA l : l # <<>> /\ ~startsWith(l, At))

\* C17: the DocMap entry of a documented public method is exactly the first
\* non-blank line of its block comment that does not start with "@", without
\* the leading star and whitespace; later lines never appear in the entry.
C17_DocIsFirstLine ==
  (/\ docPc = "done"
   /\ docMethod # constructor /\ ~startsWith(docMethod, Underscore)
   /\ DescriptionLines(docComment) # <<>>)
    => \E d \in taskDocs :
         d.name = docMethod /\ d.doc = DescriptionLines(docComment)[1]

(***************************************************************************)
(* Context.run (context.js): one call, from the merge of the options to    *)
(* the settlement of the returned promise. JavaScript values that are not  *)
(* numbers are written as strings ("true", "false", "undefined"); the code *)
(* handed to the close handler is a number or null.                        *)
(***************************************************************************)
ENOENT == -2

\* the argument of new Context(config)
ConfigArgs == [warn : {"absent", "true", "false"}, hide : {"absent", "true"}]

\* constructor: the defaults, overridden by the fields of the argument
NewConfig(arg) ==
  [warn |-> IF arg.warn = "absent" THEN "false" ELSE arg.warn,
   hide |-> IF arg.hide = "absent" THEN "false" ELSE arg.hide]

\* the options argument of run: warn absent, or present with a value
RunOptions ==
  { [hasWarn |-> FALSE, warn |-> "undefined"] }
    \cup [hasWarn : {TRUE}, warn : {"true", "false", "undefined"}]

JsTruthy(v) == v = "true"

\* the codes a child that was spawned can close with: an exit code, or null
\* when a signal ended it
CloseCodes == { Num(n) : n \in 0..MaxExitCode } \cup { Null }

Chunk == <<"o", Newline>>

\* the result object built in the close handler
ResultOf(code, captured) ==
  [present |-> TRUE,
   stdout  |-> Trim(captured),
   code    |-> IF code.isNull \/ code.n = 0 THEN 0 ELSE code.n,
   ok      |-> ~code.isNull /\ code.n = 0,
   failed  |-> ~(~code.isNull /\ code.n = 0)]

CtxInit ==
  /\ config \in { NewConfig(a) : a \in ConfigArgs }
  /\ options \in RunOptions
  /\ opts = NoOptions
  /\ child = NoChild
  /\ stdout = <<>>
  /\ promise = Pending
  /\ ctxPc = "start"
  /\ CliIdle /\ SigIdle /\ DocIdle /\ TodoIdle /\ WallIdle /\ SrcIdle

\* run taking warn from the Context only
RunIgnoringCallOptions ==
  /\ ctxPc = "start"
  /\ opts' = [warn |-> config.warn, hide |-> config.hide]
  /\ ctxPc' = "spawned"
  /\ UNCHANGED <<config, options, child, stdout, promise,
                 cliVars, sigVars, docVars, todoVars,
                 wallVars, srcVars>>

\* run: merge the options and spawn the child
Run ==
  /\ ctxPc = "start"
  /\ opts' = [warn |-> IF options.hasWarn THEN options.warn ELSE config.warn,
              hide |-> config.hide]
  /\ ctxPc' = "spawned"
  /\ UNCHANGED <<config, options, child, stdout, promise,
                 cliVars, sigVars, docVars, todoVars,
                 wallVars, srcVars>>

\* child.stdout 'data' handler, registered only when opts.hide
OnData ==
  /\ ctxPc = "spawned"
  /\ JsTruthy(opts.hide)
  /\ Len(stdout) < MaxChunks * Len(Chunk)
  /\ stdout' = stdout \o Chunk
  /\ UNCHANGED <<config, options, opts, child, promise, ctxPc,
                 cliVars, sigVars, docVars, todoVars,
                 wallVars, srcVars>>

\* child 'error' handler: the child could not be spawned
OnError ==
  /\ ctxPc = "spawned"
  /\ stdout = <<>>
  /\ child' = [child EXCEPT !.errored = TRUE]
  /\ promise' = IF promise.state = "pending"
                THEN [state |-> "rejected", result |-> NoResult]
                ELSE promise
  /\ ctxPc' = "errored"
  /\ UNCHANGED <<config, options, opts, stdout,
                 cliVars, sigVars, docVars, todoVars,
                 wallVars, srcVars>>

\* child 'close' handler; a promise that is settled stays as it is
OnClose ==
  /\ ctxPc \in {"spawned", "errored"}
  /\ \E code \in (IF ctxPc = "spawned" THEN CloseCodes ELSE { Num(ENOENT) }) :
       /\ child' = [child EXCEPT !.closed = TRUE, !.code = code]
       /\ promise' =
            IF promise.state # "pending" THEN promise
            ELSE IF code # Num(0) /\ ~JsTruthy(opts.warn)
                 THEN [state |-> "rejected", result |-> ResultOf(code, stdout)]
                 ELSE [state |-> "resolved", result |-> ResultOf(code, stdout)]
  /\ ctxPc' = "closed"
  /\ UNCHANGED <<config, options, opts, stdout,
                 cliVars, sigVars, docVars, todoVars,
                 wallVars, srcVars>>

CtxNext == Run \/ OnData \/ OnError \/ OnClose

SpecContext == CtxInit /\ [][CtxNext]_vars

\* the warn option in force: the call's, when it names one, else the Context's
EffectiveWarn == IF options.hasWarn THEN options.warn ELSE config.warn

Settled == ctxPc \in {"errored", "closed"}

\* the child ran and closed with a code other than the number 0
ClosedNonZero == child.closed /\ ~child.errored /\ child.code # Num(0)

\* C18 as stated: run rejects if and only if the exit code is non-zero and
\* the effective warn option is false, the rejection carries the result, and
\* with warn true a failing command resolves with failed true.
C18_RejectsIffFailedWithoutWarn ==
  Settled =>
    /\ (promise.state = "rejected") <=> (ClosedNonZero /\ ~JsTruthy(EffectiveWarn))
    /\ promise.state = "rejected" => promise.result.present
    /\ (ClosedNonZero /\ JsTruthy(EffectiveWarn))
         => (promise.state = "resolved" /\ promise.result.failed)

\* C18: when the spawned child closes, run rejects if and only if the close
\* code is not 0 (null after a signal included) and the effective warn option
\* is falsy, and the rejection carries the result; with warn true a failing
\* command resolves with failed true; when the child cannot be spawned, run
\* rejects whatever warn is and the rejection carries no result.
C18_RunSettlement ==
  Settled =>
    /\ ~child.errored =>
         /\ (promise.state = "rejected")
              <=> (child.code # Num(0) /\ ~JsTruthy(EffectiveWarn))
         /\ promise.result = ResultOf(child.code, stdout)
         /\ (child.code # Num(0) /\ JsTruthy(EffectiveWarn))
              => (promise.state = "resolved" /\ promise.result.failed)
    /\ child.errored =>
         (promise.state = "rejected" /\ ~promise.result.present)

C18_Witness ==
  /\ ctxPc = "closed" /\ ~child.errored /\ child.code = Num(1)
  /\ config.warn = "false" /\ options.hasWarn /\ options.warn = "true"
  /\ promise.state = "resolved" /\ promise.result.failed

\* C19: every result object run produces has ok true exactly when its code
\* is 0, and failed the negation of ok, however the child ended.
C19_OkIffCodeZero ==
  promise.result.present =>
    /\ promise.result.ok <=> (promise.result.code = 0)
    /\ promise.result.failed <=> ~promise.result.ok

(***************************************************************************)
(* ToDoManager (plugins/todo_mgr.js): the todos table as a set of rows.    *)
(* A row keeps its id, its title and its completed column (0 or 1).        *)
(***************************************************************************)
Titles == { <<"t">>, <<"u">> }

TodoIds == 1..MaxTodos

\* UPDATE todos SET completed = value WHERE id = id
SetCompleted(rows, id, value) ==
  { IF r.id = id THEN [r EXCEPT !.completed = value] ELSE r : r \in rows }

\* the changes count of a statement with WHERE id = id
ChangesById(rows, id) == Cardinality({ r \in rows : r.id = id })

TodoInit ==
  /\ todos = {}
  /\ nextId = 1
  /\ todoReturn = NoReturn
  /\ lastClear = NoClear
  /\ CliIdle /\ SigIdle /\ DocIdle /\ CtxIdle /\ WallIdle /\ SrcIdle

addTodo(title) ==
  /\ nextId <= MaxTodos
  /\ todos' = todos \cup { [id |-> nextId, title |-> title, completed |-> 0] }
  /\ nextId' = nextId + 1
  /\ todoReturn' = [op |-> "addTodo", count |-> nextId, changed |-> FALSE]
  /\ UNCHANGED <<lastClear, cliVars, sigVars, docVars, ctxVars,
                 wallVars, srcVars>>

completeTodo(id) ==
  /\ todos' = SetCompleted(todos, id, 1)
  /\ todoReturn' = [op |-> "completeTodo", count |-> 0,
                    changed |-> ChangesById(todos, id) > 0]
  /\ UNCHANGED <<nextId, lastClear, cliVars, sigVars, docVars, ctxVars,
                 wallVars, srcVars>>

uncompleteTodo(id) ==
  /\ todos' = SetCompleted(todos, id, 0)
  /\ todoReturn' = [op |-> "uncompleteTodo", count |-> 0,
                    changed |-> ChangesById(todos, id) > 0]
  /\ UNCHANGED <<nextId, lastClear, cliVars, sigVars, docVars, ctxVars,
                 wallVars, srcVars>>

deleteTodo(id) ==
  /\ todos' = { r \in todos : r.id # id }
  /\ todoReturn' = [op |-> "deleteTodo", count |-> 0,
                    changed |-> ChangesById(todos, id) > 0]
  /\ UNCHANGED <<nextId, lastClear, cliVars, sigVars, docVars, ctxVars,
                 wallVars, srcVars>>

\* clearCompleted deleting every row that was ever completed or not
clearCompletedAllRows ==
  /\ todos' = {}
  /\ todoReturn' = [op |-> "clearCompleted", count |-> Cardinality(todos),
                    changed |-> FALSE]
  /\ lastClear' = [called |-> TRUE, before |-> todos]
  /\ UNCHANGED <<nextId, cliVars, sigVars, docVars, ctxVars,
                 wallVars, srcVars>>

\* DELETE FROM todos WHERE completed = 1, returning the changes count
clearCompleted ==
  /\ todos' = { r \in todos : r.completed # 1 }
  /\ todoReturn' = [op |-> "clearCompleted",
                    count |-> Cardinality({ r \in todos : r.completed = 1 }),
                    changed |-> FALSE]
  /\ lastClear' = [called |-> TRUE, before |-> todos]
  /\ UNCHANGED <<nextId, cliVars, sigVars, docVars, ctxVars,
                 wallVars, srcVars>>

TodoNext ==
  \/ \E title \in Titles : addTodo(title)
  \/ \E id \in TodoIds : completeTodo(id)
  \/ \E id \in TodoIds : uncompleteTodo(id)
  \/ \E id \in TodoIds : deleteTodo(id)
  \/ clearCompleted

SpecTodo == TodoInit /\ [][TodoNext]_vars

\* the last call was clearCompleted
JustCleared == todoReturn.op = "clearCompleted" /\ lastClear.called

\* C20: right after clearCompleted the table holds exactly the rows that were
\* pending at the call, each unchanged, and the call has returned the number
\* of rows that were completed, whatever calls came before.
C20_ClearCompletedFrame ==
  JustCleared =>
    /\ todos = { r \in lastClear.before : r.completed = 0 }
    /\ todoReturn.count
         = Cardinality(lastClear.before) - Cardinality(todos)
    /\ \A r \in lastClear.before : r.completed \in {0, 1}

C20_Witness ==
  /\ JustCleared
  /\ todoReturn.count = 2
  /\ Cardinality(todos) = 1
  /\ \E r \in lastClear.before : r.completed = 1 /\ r.id > 1

(***************************************************************************)
(* Further properties of the dispatcher.                                   *)
(***************************************************************************)
\* resolveMethod has been called
LookedUp ==
  \/ pc \in {"invoke", "await"}
  \/ pc = "exited" /\ (executed # <<>> \/ HasEvent("Unknown"))

\* C22: a token whose method part starts with "_" gets the private-access
\* error, and one whose method part is "constructor" the constructor error,
\* before any lookup and whether or not such a member exists; the token is
\* never reported as an unknown task and nothing is executed.
C22_RejectedBeforeLookup ==
  (Dispatched /\ (startsWith(parsed.method, Underscore) \/ parsed.method = constructor)) =>
    /\ ~LookedUp /\ resolved = NotResolved /\ executed = <<>>
    /\ pc = "exited" /\ exitCode = 1
    /\ ~HasEvent("Unknown")
    /\ startsWith(parsed.method, Underscore) => HasEvent("private")
    /\ parsed.method = constructor => HasEvent("constructor")

C22_Witness ==
  /\ argv = << <<"_", "a", "_", "b">> >>
  /\ typeofInstance(instance, <<"_", "a", "_", "b">>) = "function"
  /\ pc = "exited" /\ HasEvent("private")

\* the text of s before its first ch, and the text after it
Before(s, ch) == SubSeq(s, 1, IndexOf(s, ch) - 1)
After(s, ch) == SubSeq(s, IndexOf(s, ch) + 1, Len(s))

\* the separator parseCommand is said to split at: ":" when present, else "."
ClaimedSeparator(t) == IF includes(t, Colon) THEN Colon ELSE Dot

\* the token that differs from t in its first "." being a ":"
ColonForm(t) == Before(t, Dot) \o <<Colon>> \o After(t, Dot)

\* C23: the token is split at ":" whenever it contains one (even behind a
\* "."), otherwise at "." when it contains one, and otherwise it is the
\* method with no namespace; ns.method parses to the pair of ns:method and
\* resolves to the same callable.
C23_SeparatorPrecedence ==
  Dispatched =>
    LET t == argv[1]
        sep == ClaimedSeparator(t)
    IN /\ (includes(t, Colon) \/ includes(t, Dot)) =>
            /\ ~parsed.nsNull
            /\ parsed.namespace = Before(t, sep)
            /\ ~includes(After(t, sep), sep) => parsed.method = After(t, sep)
       /\ ~(includes(t, Colon) \/ includes(t, Dot)) =>
            (parsed.nsNull /\ parsed.method = t)
       /\ (includes(t, Dot) /\ ~includes(t, Colon) /\ ~includes(After(t, Dot), Dot)) =>
            /\ parsed = [nsNull |-> FALSE, namespace |-> Before(t, Dot),
                         method |-> After(t, Dot)]
            /\ LookedUp =>
                 resolved = resolveMethod(instance,
                              [nsNull |-> FALSE,
                               namespace |-> Before(ColonForm(t), Colon),
                               method |-> After(ColonForm(t), Colon)])

C23_Witness ==
  /\ argv = << <<"a", ".", "b">> >>
  /\ LookedUp /\ resolved.found
  /\ resolved.target = NamespaceTarget(nameA)

\* C24: when both instance[ns][m] and the flattened instance[ns_m] are
\* callable, the token ns:m resolves to the namespace member with target ns
\* and no deprecation warning is printed.
C24_MemberBeforeLegacy ==
  (LookedUp /\ Truthy(parsed)
     /\ MemberCallable(instance, parsed) /\ LegacyCallable(instance, parsed)) =>
    /\ resolved.found
    /\ resolved.target = NamespaceTarget(parsed.namespace)
    /\ resolved.fn = MemberFn(instance, parsed.namespace, parsed.method)
    /\ ~HasEvent("warn")
    /\ \A i \in 1..Len(executed) :
         executed[i].target = NamespaceTarget(parsed.namespace)

C24_Witness ==
  /\ argv = << <<"a", ":", "b">> >>
  /\ typeofInstance(instance, <<"a", "_", "b">>) = "function"
  /\ Len(executed) = 1
  /\ executed[1].target = NamespaceTarget(nameA)

\* the names of a prototype that are neither "constructor" nor private
PublicMembers(proto) ==
  SelectSeq(proto, LAMBDA m : m # constructor /\ ~startsWith(m, Underscore))

\* C25: every namespace in a printed discovery result belongs to an own
\* property of the instance whose value is a non-null, non-array object, its
\* list is exactly the public non-constructor members of the value's
\* prototype, and that list is not empty.
C25_NamespaceRegistration ==
  \A i \in 1..Len(out) :
    LET l == out[i].listing
    IN out[i].kind \in {"list", "help"} =>
         \A prop \in DOMAIN l.namespaced :
           /\ prop \in DOMAIN instance.own
           /\ ~instance.own[prop].isNull
           /\ ~instance.own[prop].isArray
           /\ l.namespaced[prop] = PublicMembers(instance.own[prop].proto)
           /\ l.namespaced[prop] # <<>>

C25_Witness ==
  /\ \E i \in 1..Len(out) :
       /\ out[i].kind = "list"
       /\ DOMAIN out[i].listing.namespaced = {PrivateProp}
  /\ nameA \in DOMAIN instance.own
  /\ instance.own[nameA] = NamespaceObject(<< <<"_", "b">> >>)

\* C29: every executed token names a discovered task: a root token m runs
\* only if m is in the root discovery list, and a token ns:m runs a namespace
\* member only if ns is a registered namespace whose list contains m.
C29_ExecutedWithinDiscovery ==
  \A i \in 1..Len(executed) :
    LET tasks == discoverTasks(instance)
    IN /\ ~Truthy(parsed) =>
            \E j \in 1..Len(tasks.root) : tasks.root[j] = parsed.method
       /\ executed[i].target.kind = "namespace" =>
            /\ parsed.namespace \in DOMAIN tasks.namespaced
            /\ \E j \in 1..Len(tasks.namespaced[parsed.namespace]) :
                 tasks.namespaced[parsed.namespace][j] = parsed.method

\* C30: for a token that contains a separator, the parsed namespace, the
\* separator and the parsed method concatenate back to the token, so nothing
\* is executed for a token as if its trailing part were absent.
C30_ParseKeepsWholeToken ==
  (Dispatched /\ ~parsed.nsNull) =>
    \E sep \in {Colon, Dot} :
      parsed.namespace \o <<sep>> \o parsed.method = argv[1]

(***************************************************************************)
(* The edge table of the wall (plugins/wall_mgr.js): ContextWall.setEdge,  *)
(* ContextWall.getEdge and WallNamespace.clear_edge. A row keeps its id,   *)
(* component, status and approach; null is written "null".                *)
(***************************************************************************)
Components == {"A", "B"}

\* CHECK(status IN (...)); a NULL status passes the check
ValidStatuses == {"planning", "building", "testing", "blocked"}

\* the arguments a caller may give
GivenComponents == Components
GivenStatuses == ValidStatuses \cup {"null", "done"}
GivenApproaches == {"null", "REST"}

\* the INSERT violates NOT NULL or the CHECK constraint
InsertFails(component, status) ==
  component = "null" \/ status \notin ValidStatuses \cup {"null"}

\* SELECT * FROM edge ... .get() || undefined, reduced to the component
getEdge(rows) ==
  IF rows = {} THEN "undefined"
  ELSE (CHOOSE r \in rows : \A q \in rows : r.id <= q.id).component

WallInit ==
  /\ edge = {}
  /\ edgeCall = NoCall
  /\ edgeGiven = "undefined"
  /\ edgeSet = "undefined"
  /\ edgeResult = "undefined"
  /\ CliIdle /\ SigIdle /\ DocIdle /\ CtxIdle /\ TodoIdle /\ SrcIdle

\* setEdge: DELETE FROM edge, then the INSERT, which may throw
setEdge(component, status, approach) ==
  /\ edge' = IF InsertFails(component, status) THEN {}
             ELSE { [id |-> 1, component |-> component, status |-> status,
                     current_approach |-> approach] }
  /\ edgeCall' = [op |-> "setEdge", component |-> component, status |-> status,
                  approach |-> approach, threw |-> InsertFails(component, status)]
  /\ edgeGiven' = component
  /\ edgeSet' = IF InsertFails(component, status) THEN edgeSet ELSE component
  /\ UNCHANGED <<edgeResult, cliVars, sigVars, docVars, ctxVars, todoVars, srcVars>>

clear_edge ==
  /\ edge' = {}
  /\ edgeCall' = [NoCall EXCEPT !.op = "clear_edge"]
  /\ edgeGiven' = "undefined"
  /\ edgeSet' = "undefined"
  /\ UNCHANGED <<edgeResult, cliVars, sigVars, docVars, ctxVars, todoVars, srcVars>>

GetEdge ==
  /\ edgeResult' = getEdge(edge)
  /\ edgeCall' = [NoCall EXCEPT !.op = "getEdge"]
  /\ UNCHANGED <<edge, edgeGiven, edgeSet, cliVars, sigVars, docVars, ctxVars,
                 todoVars, srcVars>>

WallNext ==
  \/ \E component \in GivenComponents, status \in GivenStatuses,
          approach \in GivenApproaches :
       setEdge(component, status, approach)
  \/ clear_edge
  \/ GetEdge

SpecWall == WallInit /\ [][WallNext]_vars

\* C21: after any sequence of setEdge and clear_edge calls the edge table
\* holds at most one row, and getEdge returns the component of the most
\* recent setEdge not followed by clear_edge (the last one called, or the
\* last one that returned), or undefined when no edge is set.
C21_SingleCurrentEdge ==
  /\ Cardinality(edge) <= 1
  /\ edgeCall.op = "getEdge" => edgeResult \in {edgeGiven, edgeSet}

(***************************************************************************)
(* loadTaskDocs (cli.js 250-348) on the text of a tasks file: the class    *)
(* comment, the class body found by counting braces, and the docs of the   *)
(* methods matched by methodRegex. Positions are JavaScript's, from 0.     *)
(***************************************************************************)
WordChars ==
  {"a", "b", "c", "d", "e", "f", "g", "h", "i", "j", "k", "l", "m", "n",
   "o", "p", "q", "r", "s", "t", "u", "v", "w", "x", "y", "z", "A", "B",
   "C", "D", "E", "F", "G", "H", "I", "J", "K", "L", "M", "N", "O", "P",
   "Q", "R", "S", "T", "U", "V", "W", "X", "Y", "Z", "0", "1", "2", "3",
   "4", "5", "6", "7", "8", "9", "_"}

ClassHeader ==
  <<"e", "x", "p", "o", "r", "t", " ", "c", "l", "a", "s", "s", " ", "T",
    "a", "s", "k", "s">>
OpenComment == <<"/", "*", "*">>
CloseComment == <<"*", "/">>
AsyncWord == <<"a", "s", "y", "n", "c">>

\* s[i] of JavaScript
CharAt(s, i) == s[i + 1]

\* s.substring(a, b); the arguments are swapped when a > b
Substring(s, a, b) ==
  LET lo == IF a <= b THEN a ELSE b
      hi == IF a <= b THEN b ELSE a
  IN SubSeq(s, lo + 1, IF hi <= Len(s) THEN hi ELSE Len(s))

\* pat occurs in s at position i
MatchAt(s, pat, i) ==
  i >= 0 /\ i + Len(pat) <= Len(s) /\ SubSeq(s, i + 1, i + Len(pat)) = pat

\* s.indexOf(pat, from), -1 when absent
IndexOfFrom(s, pat, from) ==
  LET hits == { i \in from..(Len(s) - 1) : MatchAt(s, pat, i) }
  IN IF hits = {} THEN -1 ELSE CHOOSE i \in hits : \A j \in hits : i <= j

\* the first position at or after i that holds no whitespace (Len(s) if none)
SkipSpace(s, i) ==
  LET stops == { j \in i..(Len(s) - 1) : ~IsSpace(CharAt(s, j)) }
  IN IF stops = {} THEN Len(s) ELSE CHOOSE j \in stops : \A k \in stops : j <= k

\* the first position at or after i that holds no word character
WordEnd(s, i) ==
  LET stops == { j \in i..(Len(s) - 1) : CharAt(s, j) \notin WordChars }
  IN IF stops = {} THEN Len(s) ELSE CHOOSE j \in stops : \A k \in stops : j <= k

LineStart(s, i) == i = 0 \/ CharAt(s, i - 1) = Newline

RECURSIVE StripStars(_, _)
\* replace(/^\s*\*/gm, ""), from position i on
StripStars(s, i) ==
  IF i >= Len(s) THEN <<>>
  ELSE IF /\ LineStart(s, i)
          /\ SkipSpace(s, i) < Len(s)
          /\ CharAt(s, SkipSpace(s, i)) = Star
       THEN StripStars(s, SkipSpace(s, i) + 1)
       ELSE <<CharAt(s, i)>> \o StripStars(s, i + 1)

RECURSIVE StripIndent(_, _)
\* replace(/^\s+/gm, ""), from position i on
StripIndent(s, i) ==
  IF i >= Len(s) THEN <<>>
  ELSE IF LineStart(s, i) /\ SkipSpace(s, i) > i
       THEN StripIndent(s, SkipSpace(s, i))
       ELSE <<CharAt(s, i)>> \o StripIndent(s, i + 1)

\* the clean-up applied to the text of the class comment
CleanComment(content) == Trim(StripIndent(StripStars(content, 0), 0))

NoClassDoc == [classNull |-> TRUE, classDoc |-> <<>>]

\* cli.js 257-299: walk back from the class declaration to a comment end,
\* then back to a comment start
classDocOf(s, tasksClassStart) ==
  LET stops == { i \in 0..(tasksClassStart - 1) :
                   \/ CharAt(s, i) = "}"
                   \/ CharAt(s, i) = "/" /\ i > 0 /\ CharAt(s, i - 1) = Star }
  IN IF stops = {} THEN NoClassDoc
     ELSE LET i == CHOOSE x \in stops : \A y \in stops : y <= x
              starts == { j \in 1..(i - 1) :
                            /\ CharAt(s, j) = Star
                            /\ CharAt(s, j - 1) = "/"
                            /\ CharAt(s, j + 1) = Star }
          IN IF CharAt(s, i) = "}" \/ starts = {} THEN NoClassDoc
             ELSE LET j == CHOOSE x \in starts : \A y \in starts : y <= x
                  IN [classNull |-> FALSE,
                      classDoc |-> CleanComment(Substring(s, (j - 1) + 3, (i + 1) - 2))]

RECURSIVE BraceScan(_, _, _)
\* cli.js 312-321: the position where the brace count returns to 0, -1 if never
BraceScan(s, i, braceCount) ==
  IF i >= Len(s) THEN -1
  ELSE IF CharAt(s, i) = "{" THEN BraceScan(s, i + 1, braceCount + 1)
  ELSE IF CharAt(s, i) = "}"
       THEN IF braceCount - 1 = 0 THEN i ELSE BraceScan(s, i + 1, braceCount - 1)
  ELSE BraceScan(s, i + 1, braceCount)

\* the tail of methodRegex at position p: \s*(\w+)\s*\(
PlainHead(s, p) ==
  LET q == SkipSpace(s, p)
      w == WordEnd(s, q)
      r == SkipSpace(s, w)
  IN [ok |-> w > q /\ r < Len(s) /\ CharAt(s, r) = "(",
      name |-> Substring(s, q, w), end |-> r + 1]

\* the tail of methodRegex at position p: \s*(?:async\s+)?(\w+)\s*\(
HeadAt(s, p) ==
  LET q == SkipSpace(s, p)
      withAsync == PlainHead(s, q + Len(AsyncWord))
  IN IF /\ MatchAt(s, AsyncWord, q)
        /\ q + Len(AsyncWord) < Len(s)
        /\ IsSpace(CharAt(s, q + Len(AsyncWord)))
        /\ withAsync.ok
     THEN withAsync
     ELSE PlainHead(s, p)

\* the comment ends of one methodRegex attempt that starts at position i
CommentEnds(s, i) ==
  { e \in (i + Len(OpenComment))..(Len(s) - 1) :
      MatchAt(s, CloseComment, e) /\ HeadAt(s, e + Len(CloseComment)).ok }

\* docs[methodName] = text
DocsPut(docs, name, text) ==
  { d \in docs : d.name # name } \cup { [name |-> name, doc |-> text] }

RECURSIVE methodDocs(_, _, _)
\* cli.js 336-345: the exec loop of methodRegex over the class content
methodDocs(content, lastIndex, docs) ==
  LET begins == { i \in lastIndex..(Len(content) - 1) :
                    MatchAt(content, OpenComment, i) /\ CommentEnds(content, i) # {} }
  IN IF begins = {} THEN docs
     ELSE LET i == CHOOSE x \in begins : \A y \in begins : x <= y
              e == CHOOSE x \in CommentEnds(content, i) :
                     \A y \in CommentEnds(content, i) : x <= y
              head == HeadAt(content, e + Len(CloseComment))
              comment == Substring(content, i + Len(OpenComment), e)
          IN methodDocs(content, head.end,
               IF head.name # constructor /\ ~startsWith(head.name, Underscore)
               THEN DocsPut(docs, head.name, Trim(comment))
               ELSE docs)

\* the content between the braces that the count pairs up
classContent(s, tasksClassStart) ==
  LET openBraceIndex == IndexOfFrom(s, <<"{">>, tasksClassStart)
      found == BraceScan(s, openBraceIndex, 0)
      closeBraceIndex == IF found = -1 THEN openBraceIndex ELSE found
  IN Substring(s, openBraceIndex + 1, closeBraceIndex)

\* loadTaskDocs(filePath) for a file with the text s
loadTaskDocs(s) ==
  LET tasksClassStart == IndexOfFrom(s, ClassHeader, 0)
      doc == IF tasksClassStart # -1 THEN classDocOf(s, tasksClassStart) ELSE NoClassDoc
  IN IF tasksClassStart = -1 \/ IndexOfFrom(s, <<"{">>, tasksClassStart) = -1
     THEN [taskDocs |-> {}, classNull |-> doc.classNull, classDoc |-> doc.classDoc]
     ELSE [taskDocs |-> methodDocs(classContent(s, tasksClassStart), 0, {}),
           classNull |-> doc.classNull, classDoc |-> doc.classDoc]

\* what may stand before the class declaration
JsDocComment ==
  <<"/", "*", "*", " ", "A", " ", "*", "/", Newline>>
PlainComment ==
  <<"/", "*", " ", "n", " ", "*", "/", Newline>>
Statement ==
  <<"x", ";", Newline>>
BlockStatement ==
  <<"u", "(", ")", "{", "}", Newline>>
PreamblePieces == {JsDocComment, PlainComment, Statement, BlockStatement}

\* the import of the base class and the two forms of the class declaration
ImportLine ==
  <<"i", "m", "p", "o", "r", "t", " ", "{", "B", "}", " ", "f", "r", "o",
    "m", " ", "\"", ".", "/", "b", ".", "j", "s", "\"", ";", Newline>>
ExtendsClause ==
  <<" ", "e", "x", "t", "e", "n", "d", "s", " ", "B">>

\* documented methods: a plain one, and two whose bodies hold a brace in a string
MethodF ==
  <<" ", "/", "*", "*", " ", "D", " ", "*", "/", " ", "f", "(", ")", "{",
    "}">>
MethodG ==
  <<" ", "/", "*", "*", " ", "E", " ", "*", "/", " ", "g", "(", ")", "{",
    " ", "s", "=", "\"", "}", "\"", ";", " ", "}">>
MethodH ==
  <<" ", "/", "*", "*", " ", "F", " ", "*", "/", " ", "h", "(", ")", "{",
    " ", "s", "=", "\"", "{", "\"", ";", " ", "}">>
Members == {MethodF, MethodG, MethodH}

\* what may follow the class: nothing, or an object with a documented method
ObjectAfter ==
  <<"o", " ", "=", " ", "{", " ", "/", "*", "*", " ", "Z", " ", "*", "/",
    " ", "k", "(", ")", "{", " ", "t", "=", "\"", "}", "\"", ";", " ", "}",
    " ", "}", ";">>
AfterPieces == {<<>>, ObjectAfter}

\* the module of the base class
ParentFile ==
  <<"e", "x", "p", "o", "r", "t", " ", "c", "l", "a", "s", "s", " ", "B",
    " ", "{", " ", "/", "*", "*", " ", "P", " ", "*", "/", " ", "p", "(",
    ")", "{", "}", " ", "/", "*", "*", " ", "Q", " ", "*", "/", " ", "f",
    "(", ")", "{", "}", " ", "}">>

RECURSIVE Concat(_)
Concat(list) == IF list = <<>> THEN <<>> ELSE Head(list) \o Concat(Tail(list))

\* the text of a tasks file
TasksFile(extends, preamble, members, after) ==
  (IF extends THEN ImportLine ELSE <<>>)
    \o Concat(preamble)
    \o ClassHeader \o (IF extends THEN ExtendsClause ELSE <<>>) \o <<" ", "{">>
    \o Concat(members)
    \o <<" ", "}", Newline>>
    \o after

LoadInit ==
  /\ \E extends \in BOOLEAN,
        preamble \in UNION { [1..n -> PreamblePieces] : n \in 0..MaxPreamble },
        members \in UNION { [1..n -> Members] : n \in 0..MaxMembers },
        after \in AfterPieces :
       /\ source = TasksFile(extends, preamble, members, after)
       /\ parentSource = IF extends THEN ParentFile ELSE <<>>
  /\ loaded = NoDocs
  /\ loadPc = "start"
  /\ CliIdle /\ SigIdle /\ DocIdle /\ CtxIdle /\ TodoIdle /\ WallIdle

\* cli.js 38: const { taskDocs, classDoc } = loadTaskDocs(tasksPath)
LoadDocs ==
  /\ loadPc = "start"
  /\ loaded' = loadTaskDocs(source)
  /\ loadPc' = "done"
  /\ UNCHANGED <<source, parentSource, cliVars, sigVars, docVars, ctxVars,
                 todoVars, wallVars>>

LoadNext == LoadDocs

SpecLoadDocs == LoadInit /\ [][LoadNext]_vars

\* the quote characters of the string literals the scan tells apart
Quotes == {"\"", "'"}

RECURSIVE MatchingBrace(_, _, _, _)
\* the position of the brace that closes the one at the start of the scan,
\* braces in string literals and comments not counted; mode is
\* "code", "line", "block" or the quote character of the literal being read
MatchingBrace(s, i, depth, mode) ==
  IF i >= Len(s) THEN -1
  ELSE IF mode = "line"
       THEN MatchingBrace(s, i + 1, depth, IF CharAt(s, i) = Newline THEN "code" ELSE "line")
  ELSE IF mode = "block"
       THEN IF MatchAt(s, CloseComment, i) THEN MatchingBrace(s, i + 2, depth, "code")
            ELSE MatchingBrace(s, i + 1, depth, "block")
  ELSE IF mode \in Quotes
       THEN IF CharAt(s, i) = "\\" THEN MatchingBrace(s, i + 2, depth, mode)
            ELSE MatchingBrace(s, i + 1, depth, IF CharAt(s, i) = mode THEN "code" ELSE mode)
  ELSE IF MatchAt(s, <<"/", "/">>, i) THEN MatchingBrace(s, i + 2, depth, "line")
  ELSE IF MatchAt(s, <<"/", "*">>, i) THEN MatchingBrace(s, i + 2, depth, "block")
  ELSE IF CharAt(s, i) \in Quotes THEN MatchingBrace(s, i + 1, depth, CharAt(s, i))
  ELSE IF CharAt(s, i) = "{" THEN MatchingBrace(s, i + 1, depth + 1, "code")
  ELSE IF CharAt(s, i) = "}"
       THEN IF depth - 1 = 0 THEN i ELSE MatchingBrace(s, i + 1, depth - 1, "code")
  ELSE MatchingBrace(s, i + 1, depth, "code")

\* the class body between the opening brace of the class and its matching brace
LexicalBody(s) ==
  LET open == IndexOfFrom(s, <<"{">>, IndexOfFrom(s, ClassHeader, 0))
  IN Substring(s, open + 1, MatchingBrace(s, open, 0, "code"))

DocNames(docs) == { d.name : d \in docs }

\* C26: the methods whose docs are extracted are exactly the documented
\* public methods of the class body that ends at the brace matching the
\* opening brace of the class, braces in strings and comments not counted.
C26_BodyEndsAtMatchingBrace ==
  loadPc = "done" =>
    DocNames(loaded.taskDocs) = DocNames(methodDocs(LexicalBody(source), 0, {}))

\* C27: when the Tasks class extends an imported class, the docs hold the
\* parent file's doc of every documented public method of the parent, and
\* the child's doc for a method documented in both files.
C27_ParentDocsMerged ==
  (loadPc = "done" /\ parentSource # <<>>) =>
    \A d \in methodDocs(parentSource, 0, {}) :
      \E e \in loaded.taskDocs :
        /\ e.name = d.name
        /\ LET own == { c \in methodDocs(LexicalBody(source), 0, {}) : c.name = d.name }
           IN IF own = {} THEN e.doc = d.doc ELSE e \in own

\* the position of the last comment end before the class declaration, -1 if none
LastCommentEnd(s, start) ==
  LET ends == { i \in 0..(start - 1) : MatchAt(s, CloseComment, i) }
  IN IF ends = {} THEN -1 ELSE CHOOSE i \in ends : \A j \in ends : j <= i

\* the position where the comment that ends at position e opens
CommentOpen(s, e) ==
  LET opens == { j \in 0..(e - 2) : MatchAt(s, <<"/", "*">>, j) }
  IN IF opens = {} THEN -1 ELSE CHOOSE j \in opens : \A k \in opens : k <= j

\* C28: the class doc is non-null only when a block comment precedes the
\* class declaration with no "}" between the comment and the declaration,
\* and it is then the cleaned interior of that one comment.
C28_ClassDocIsOneComment ==
  (loadPc = "done" /\ ~loaded.classNull) =>
    LET start == IndexOfFrom(source, ClassHeader, 0)
        e == LastCommentEnd(source, start)
    IN /\ e # -1
       /\ ~includes(Substring(source, e + 2, start), "}")
       /\ CommentOpen(source, e) # -1
       /\ loaded.classDoc
            = CleanComment(Substring(source, CommentOpen(source, e) + 2, e))

====
